---- MODULE Spec2Model ----
(***************************************************************************)
(* A model of cinematch.py: the favorites/ratings store of a browser       *)
(* session, the filter stage that selects the displayed recommendations,   *)
(* and the metadata client with its three retrieval strategies.            *)
(*                                                                         *)
(* Text is modelled as a tuple of one-character strings, so that           *)
(* str.strip() and truthiness of a string are computed, not assumed.       *)
(* Ratings of the metadata provider (vote_average, the slider's minimum)   *)
(* are in tenths: 7.5 is 75.                                               *)
(***************************************************************************)
EXTENDS Integers, Sequences, FiniteSets, TLC

VARIABLES favFile, ratFile, favorites, user_ratings, recommendations, failures, last, filterCall, secrets, messages, call

vars == <<favFile, ratFile, favorites, user_ratings, recommendations, failures, last, filterCall, secrets, messages, call>>

(***************************************************************************)
(* Bounds                                                                  *)
(***************************************************************************)
\* longest recommendations list of a session of the store specification
MaxRecs == 2
\* how many writes of a file may fail in one behaviour
MaxFailures == 1
\* longest candidate list given to the filter stage
MaxFilterLen == 12

\* the browser tabs (sessions); Spec runs the first one alone
Tabs == {1, 2}
\* the movie identifiers of the store specification
MovieIds == {1, 2}

(***************************************************************************)
(* Text helpers                                                            *)
(***************************************************************************)
DigitStr == <<"0", "1", "2", "3", "4", "5", "6", "7", "8", "9">>

\* str(n) of a non-negative integer: its decimal digits
RECURSIVE Str(_)
Str(n) == IF n < 10 THEN <<DigitStr[n + 1]>> ELSE Str(n \div 10) \o <<DigitStr[(n % 10) + 1]>>

IsSpace(c) == c \in {" ", "\t", "\n"}

RECURSIVE LStrip(_)
LStrip(s) == IF s # <<>> /\ IsSpace(Head(s)) THEN LStrip(Tail(s)) ELSE s

RECURSIVE RStrip(_)
RStrip(s) == IF s # <<>> /\ IsSpace(s[Len(s)]) THEN RStrip(SubSeq(s, 1, Len(s) - 1)) ELSE s

\* str.strip()
Strip(s) == RStrip(LStrip(s))

\* truthiness of a string or list: non-empty
Truthy(s) == s # <<>>

\* a is b with some elements left out, the rest in b's order
RECURSIVE IsSubseq(_, _)
IsSubseq(a, b) == IF a = <<>> THEN TRUE ELSE IF b = <<>> THEN FALSE ELSE IF Head(a) = Head(b) THEN IsSubseq(Tail(a), Tail(b)) ELSE IsSubseq(a, Tail(b))

NOT_RATED == <<"N", "o", "t", " ", "R", "a", "t", "e", "d">>

\* an entry of st.secrets: missing, or present with a value
NoSecret == [present |-> FALSE, value |-> <<>>]
Secret(value) == [present |-> TRUE, value |-> value]

\* both keys configured
BothKeys == [tmdb |-> Secret(<<"k">>), gemini |-> Secret(<<"g">>)]

\* no handler of the client has run
NoCall == [op |-> "none"]

(***************************************************************************)
(* Movie candidates and the filter stage (main, lines 588-595)             *)
(***************************************************************************)
\* a candidate as the provider returns it; has_vote says whether the record
\* carries a vote_average field
Movie(id, has_vote, vote) == [id |-> id, has_vote |-> has_vote, vote_average |-> vote]

\* movie.get('vote_average', 0)
GetVoteAverage(movie) == IF movie.has_vote THEN movie.vote_average ELSE 0

\* the wrong test a slip would write: strictly above the floor
KeepsMutant(movie, min_rating) == GetVoteAverage(movie) > min_rating

\* line 591: the test of the filter loop
Keeps(movie, min_rating) == GetVoteAverage(movie) >= min_rating

\* lines 589-592: the loop appending the kept movies in order
RECURSIVE FilterLoop(_, _)
FilterLoop(recs, min_rating) == IF recs = <<>> THEN <<>> ELSE (IF Keeps(Head(recs), min_rating) THEN <<Head(recs)>> ELSE <<>>) \o FilterLoop(Tail(recs), min_rating)

Min(a, b) == IF a < b THEN a ELSE b

\* xs[:n] for n >= 0
Take(xs, n) == SubSeq(xs, 1, Min(n, Len(xs)))

\* a slice that keeps everything
FilteredRecommendationsMutant(recs, min_rating, max_results) == FilterLoop(recs, min_rating)

\* lines 589-595: filtered_recommendations
FilteredRecommendations(recs, min_rating, max_results) == Take(FilterLoop(recs, min_rating), max_results)

\* line 583: the slider's values, in tenths (0.0 to 10.0 in steps of 0.1)
MinRatingValues == 0..100
\* line 586: the select box's options
MaxResultsOptions == {10, 20, 50, 100}

(***************************************************************************)
(* Certification of a detail record (get_age_rating_from_details)          *)
(***************************************************************************)
\* a detail record: ok is FALSE when get_movie_details returned None;
\* countries is release_dates.results, each entry with its iso_3166_1 code
\* and the certifications of its release_dates in order (<<>> stands for a
\* missing or empty certification: both are falsy)
Detail(ok, has_release_dates, countries) == [ok |-> ok, has_release_dates |-> has_release_dates, countries |-> countries]
Country(iso, certs) == [iso |-> iso, certs |-> certs]

NoDetail == Detail(FALSE, FALSE, <<>>)

\* lines 156-159: the first certification of one country that is not blank
RECURSIVE FirstCert(_)
FirstCert(certs) == IF certs = <<>> THEN <<>> ELSE IF Truthy(Head(certs)) /\ Truthy(Strip(Head(certs))) THEN Head(certs) ELSE FirstCert(Tail(certs))

\* lines 154-160: scan every US entry in order, first non-blank certification wins
RECURSIVE ScanCountries(_)
ScanCountries(countries) == IF countries = <<>> THEN NOT_RATED ELSE IF Head(countries).iso = "US" /\ FirstCert(Head(countries).certs) # <<>> THEN FirstCert(Head(countries).certs) ELSE ScanCountries(Tail(countries))

\* lines 149-160
get_age_rating_from_details(movie_details) == IF ~movie_details.ok \/ ~movie_details.has_release_dates THEN NOT_RATED ELSE ScanCountries(movie_details.countries)

\* lines 352-355: the first truthy certification of the entry (no strip here)
RECURSIVE FirstTruthyCert(_)
FirstTruthyCert(certs) == IF certs = <<>> THEN <<>> ELSE IF Truthy(Head(certs)) THEN Head(certs) ELSE FirstTruthyCert(Tail(certs))

\* lines 350-356: only the first US entry is scanned (the outer break)
RECURSIVE CardScan(_)
CardScan(countries) == IF countries = <<>> THEN NOT_RATED ELSE IF Head(countries).iso = "US" THEN (IF FirstTruthyCert(Head(countries).certs) # <<>> THEN FirstTruthyCert(Head(countries).certs) ELSE NOT_RATED) ELSE CardScan(Tail(countries))

\* lines 335-368: the display card; title, poster, year and overview are
\* copied from the candidate and are left out
format_movie_card(movie, movie_details, streaming_providers, trailer_url) == [id |-> movie.id, rating |-> GetVoteAverage(movie), age_rating |-> IF movie_details.ok /\ movie_details.has_release_dates THEN CardScan(movie_details.countries) ELSE NOT_RATED, streaming_providers |-> streaming_providers, trailer_url |-> trailer_url]

(***************************************************************************)
(* The favorites/ratings store                                             *)
(***************************************************************************)
\* a file: missing, malformed (not JSON), or a JSON document. json.dump
\* followed by json.load gives back an equal value for what the program
\* stores: lists, dicts with string keys, numbers, strings and None; the
\* ratings are keyed by str(movie_id), so their keys are strings already
MissingFile == [kind |-> "missing", doc |-> <<>>]
MalformedFile == [kind |-> "malformed", doc |-> <<>>]
JsonFile(doc) == [kind |-> "json", doc |-> doc]

\* lines 20-28: a missing file and a JSON error both give []
load_favorites(file) == IF file.kind = "json" THEN file.doc ELSE <<>>

\* the empty dict
EmptyDict == [k \in {} |-> 0]

\* lines 38-46: a missing file and a JSON error both give {}
load_user_ratings(file) == IF file.kind = "json" THEN file.doc ELSE EmptyDict

\* what a write can do: succeed; fail in open(), leaving the file as it
\* was; fail in json.dump after open() truncated the file
WriteOutcomes == {"ok", "open_failed", "dump_failed"}

\* a save that was forgotten: a successful call leaves the file as it was
WriteFileMutant(file, doc, outcome) == IF outcome = "dump_failed" THEN MalformedFile ELSE file

\* lines 30-36 and 48-54: open(..., 'w') and json.dump of the whole collection
WriteFile(file, doc, outcome) == IF outcome = "ok" THEN JsonFile(doc) ELSE IF outcome = "dump_failed" THEN MalformedFile ELSE file

\* dict.get(key, 0)
DictGet(d, key) == IF key \in DOMAIN d THEN d[key] ELSE 0

\* dict.setdefault in place of the assignment: an earlier value stays
DictSetMutant(d, key, value) == IF key \in DOMAIN d THEN d ELSE [k \in (DOMAIN d) \cup {key} |-> IF k = key THEN value ELSE d[k]]

\* d[key] = value
DictSet(d, key, value) == [k \in (DOMAIN d) \cup {key} |-> IF k = key THEN value ELSE d[k]]

\* line 372: the rating shown for a movie
current_rating(ratings, movie_id) == DictGet(ratings, Str(movie_id))

\* a check that never finds the movie
IsFavoriteMutant(favs, card) == FALSE

\* line 649: any(fav['id'] == movie_card['id'] for fav in favorites)
IsFavorite(favs, card) == \E j \in 1..Len(favs) : favs[j].id = card.id

\* a removal that drops the last element whatever the index
PopMutant(xs, i) == SubSeq(xs, 1, Len(xs) - 1)

\* list.pop(i), with i counted from 1
Pop(xs, i) == SubSeq(xs, 1, i - 1) \o SubSeq(xs, i + 1, Len(xs))

\* range(0, 6): a star for zero
StarsMutant == 0..5

\* line 377: the stars of the rating widget, range(1, 6)
Stars == 1..5

\* the provider's candidates of the store specification: one with a
\* vote_average of 7.5, one without the field
SessionMovies == {Movie(1, TRUE, 75), Movie(2, FALSE, 0)}

\* the result lists a search can put into the session
RECURSIVE SeqsUpTo(_, _)
SeqsUpTo(S, n) == IF n = 0 THEN {<<>>} ELSE LET shorter == SeqsUpTo(S, n - 1) IN shorter \cup {Append(xs, x) : xs \in shorter, x \in S}

SessionResults == SeqsUpTo(SessionMovies, MaxRecs)

\* the detail records the card of a favorite was built from
SessionDetails == {Detail(TRUE, TRUE, <<Country("US", <<<<"R">>>>)>>)}

SessionCards == {format_movie_card(m, d, <<>>, <<>>) : m \in SessionMovies, d \in SessionDetails}

UniqueIds(favs) == \A i, j \in 1..Len(favs) : favs[i].id = favs[j].id => i = j

\* the minimum ratings and maximum counts tried in the store specification
SessionMinRatings == {0, 80}
SessionMaxResults == {10}

\* favorites files an earlier session can have left: the program only ever
\* writes lists without a repeated identifier
InitFavFiles == {MissingFile, MalformedFile} \cup {JsonFile(favs) : favs \in {xs \in SeqsUpTo(SessionCards, Cardinality(MovieIds)) : UniqueIds(xs)}}

\* the stars pressed in the store specification
SessionStars == {1, 5}

\* ratings files an earlier session can have left
InitRatFiles == {MissingFile, MalformedFile, JsonFile(EmptyDict), JsonFile(DictSet(EmptyDict, Str(1), 5)), JsonFile(DictSet(DictSet(EmptyDict, Str(1), 2), Str(2), 1))}

\* what the last run of the script did: the widget, its tab, the movie and the star
Last(op, tab, id, v) == [op |-> op, tab |-> tab, id |-> id, v |-> v]

\* the sessions of the open tabs have been started from the files (lines
\* 72-80); a tab that is not open holds no session
InitStore(open, favFiles) == /\ favFile \in favFiles
             /\ ratFile \in InitRatFiles
             /\ favorites = [t \in Tabs |-> IF t \in open THEN load_favorites(favFile) ELSE <<>>]
             /\ user_ratings = [t \in Tabs |-> IF t \in open THEN load_user_ratings(ratFile) ELSE EmptyDict]
             /\ recommendations = [t \in Tabs |-> <<>>]
             /\ failures = 0
             /\ last = Last("start", 0, 0, 0)

\* the parts of the state the store's handlers leave alone
IdleClient == /\ filterCall = [done |-> FALSE, recs |-> <<>>, min_rating |-> 0, max_results |-> 0, out |-> <<>>]
              /\ secrets = BothKeys
              /\ messages = <<>>
              /\ call = NoCall

\* the store as a session without files leaves it
IdleStore == /\ favFile = MissingFile
             /\ ratFile = MissingFile
             /\ favorites = [t \in Tabs |-> <<>>]
             /\ user_ratings = [t \in Tabs |-> EmptyDict]
             /\ recommendations = [t \in Tabs |-> <<>>]
             /\ failures = 0
             /\ last = Last("start", 0, 0, 0)

Init == InitStore({1}, InitFavFiles) /\ IdleClient

\* a write may fail while the failure budget lasts
MayWrite(outcome) == outcome \in WriteOutcomes /\ (outcome # "ok" => failures < MaxFailures)

CountWrite(outcome) == failures' = IF outcome = "ok" THEN failures ELSE failures + 1

\* lines 72-80: a new session in tab t (the first run of the script, or a reload)
StartSession(t) == /\ favorites' = [favorites EXCEPT ![t] = load_favorites(favFile)]
                   /\ user_ratings' = [user_ratings EXCEPT ![t] = load_user_ratings(ratFile)]
                   /\ recommendations' = [recommendations EXCEPT ![t] = <<>>]
                   /\ last' = Last("start", t, 0, 0)
                   /\ UNCHANGED <<favFile, ratFile, failures, filterCall, secrets, messages, call>>

\* lines 444-447, 492-500, 511-514: a search button stores what its strategy returned
RunSearch(t, results) == /\ recommendations' = [recommendations EXCEPT ![t] = results]
                         /\ last' = Last("search", t, 0, 0)
                         /\ UNCHANGED <<favFile, ratFile, favorites, user_ratings, failures, filterCall, secrets, messages, call>>

\* lines 574-595, 603-604, 647-655: the add button of the i-th displayed card
AddFavorite(t, i, min_rating, max_results, details, outcome) == LET shown == FilteredRecommendations(recommendations[t], min_rating, max_results) IN
    /\ Truthy(recommendations[t])
    /\ i \in 1..Len(shown)
    /\ LET movie_card == format_movie_card(shown[i], details, <<>>, <<>>) IN
        /\ ~IsFavorite(favorites[t], movie_card)
        /\ MayWrite(outcome)
        /\ favorites' = [favorites EXCEPT ![t] = Append(@, movie_card)]
        /\ favFile' = WriteFile(favFile, favorites'[t], outcome)
        /\ CountWrite(outcome)
        /\ last' = Last("add", t, movie_card.id, 0)
    /\ UNCHANGED <<ratFile, user_ratings, recommendations, filterCall, secrets, messages, call>>

\* lines 541, 563-566: the remove button of the i-th favorite
RemoveFavorite(t, i, outcome) == /\ i \in 1..Len(favorites[t])
                                 /\ MayWrite(outcome)
                                 /\ favorites' = [favorites EXCEPT ![t] = Pop(@, i)]
                                 /\ favFile' = WriteFile(favFile, favorites'[t], outcome)
                                 /\ CountWrite(outcome)
                                 /\ last' = Last("remove", t, favorites[t][i].id, 0)
                                 /\ UNCHANGED <<ratFile, user_ratings, recommendations, filterCall, secrets, messages, call>>

\* lines 519, 533-536: the clear-all button, shown while the list is not empty
ClearFavorites(t, outcome) == /\ Truthy(favorites[t])
                              /\ MayWrite(outcome)
                              /\ favorites' = [favorites EXCEPT ![t] = <<>>]
                              /\ favFile' = WriteFile(favFile, favorites'[t], outcome)
                              /\ CountWrite(outcome)
                              /\ last' = Last("clear", t, 0, 0)
                              /\ UNCHANGED <<ratFile, user_ratings, recommendations, filterCall, secrets, messages, call>>

\* lines 370-386: star i of the rating widget of movie_id is pressed
display_star_rating(t, movie_id, i, outcome) == /\ i \in Stars
                                                /\ MayWrite(outcome)
                                                /\ user_ratings' = [user_ratings EXCEPT ![t] = DictSet(@, Str(movie_id), i)]
                                                /\ ratFile' = WriteFile(ratFile, user_ratings'[t], outcome)
                                                /\ CountWrite(outcome)
                                                /\ last' = Last("rate", t, movie_id, i)
                                                /\ UNCHANGED <<favFile, favorites, recommendations, filterCall, secrets, messages, call>>

\* line 560: the rating widget of the n-th favorite
RateFavorite(t, n, i, outcome) == /\ n \in 1..Len(favorites[t])
                                  /\ display_star_rating(t, favorites[t][n].id, i, outcome)

\* line 624: the rating widget of the n-th displayed card
RateRecommendation(t, n, min_rating, max_results, i, outcome) == LET shown == FilteredRecommendations(recommendations[t], min_rating, max_results) IN
    /\ Truthy(recommendations[t])
    /\ n \in 1..Len(shown)
    /\ display_star_rating(t, shown[n].id, i, outcome)

\* one run of the script in tab t, for the one widget the user touched
Handle(t) == \/ StartSession(t)
             \/ \E results \in SessionResults : RunSearch(t, results)
             \/ \E i \in 1..MaxRecs, r \in SessionMinRatings, n \in SessionMaxResults, d \in SessionDetails, o \in WriteOutcomes : AddFavorite(t, i, r, n, d, o)
             \/ \E i \in 1..Cardinality(MovieIds), o \in WriteOutcomes : RemoveFavorite(t, i, o)
             \/ \E o \in WriteOutcomes : ClearFavorites(t, o)
             \/ \E n \in 1..Cardinality(MovieIds), i \in SessionStars, o \in WriteOutcomes : RateFavorite(t, n, i, o)
             \/ \E n \in 1..MaxRecs, r \in SessionMinRatings, m \in SessionMaxResults, i \in SessionStars, o \in WriteOutcomes : RateRecommendation(t, n, r, m, i, o)

\* a single session: the first tab alone acts
Next == Handle(1)

Spec == Init /\ [][Next]_vars

\* the rating widgets of one session, every star pressed, over the cards a
\* search or the loaded favorites list displays
HandleRatings(t) == \/ StartSession(t)
                    \/ \E results \in SessionResults : RunSearch(t, results)
                    \/ \E n \in 1..Cardinality(MovieIds), i \in Stars, o \in WriteOutcomes : RateFavorite(t, n, i, o)
                    \/ \E n \in 1..MaxRecs, r \in SessionMinRatings, m \in SessionMaxResults, i \in Stars, o \in WriteOutcomes : RateRecommendation(t, n, r, m, i, o)

NextRatings == HandleRatings(1)

\* the favorites files of the ratings specification: none, or one favorite
RatingsFavFiles == {MissingFile} \cup {JsonFile(<<c>>) : c \in {x \in SessionCards : x.id = 2}}

InitRatings == InitStore({1}, RatingsFavFiles) /\ IdleClient

SpecRatings == InitRatings /\ [][NextRatings]_vars

(***************************************************************************)
(* The metadata client                                                     *)
(***************************************************************************)
\* what an operation gives its caller: the value returned, the messages
\* shown to the user and the exception that left it ("none": it returned)
Out(ret, msgs, raised) == [ret |-> ret, msgs |-> msgs, raised |-> raised]

Msg(level, text) == [level |-> level, text |-> text]

\* the answer to one GET: ok is FALSE for a network or HTTP failure
\* (requests.get or raise_for_status raising a RequestException)
Resp(ok, body) == [ok |-> ok, body |-> body]

GetExc(resp) == IF resp.ok THEN "none" ELSE "RequestException"

\* a try block without a matching except clause
CatchesMutant(handler, exc) == FALSE

\* whether "except <handler>" catches exc: the class itself, or Exception
Catches(handler, exc) == exc # "none" /\ (handler = exc \/ handler = "Exception")

\* lines 110-128
search_movies(key, resp) == IF ~Truthy(key) THEN Out(<<>>, <<>>, "none") ELSE IF resp.ok THEN Out(resp.body, <<>>, "none") ELSE IF Catches("RequestException", GetExc(resp)) THEN Out(<<>>, <<Msg("error", "Error searching movies")>>, "none") ELSE Out(<<>>, <<>>, GetExc(resp))

\* lines 130-147: None is NoDetail
get_movie_details(key, resp) == IF ~Truthy(key) THEN Out(NoDetail, <<>>, "none") ELSE IF resp.ok THEN Out(resp.body, <<>>, "none") ELSE IF Catches("RequestException", GetExc(resp)) THEN Out(NoDetail, <<Msg("error", "Error getting movie details")>>, "none") ELSE Out(NoDetail, <<>>, GetExc(resp))

\* a video of the provider's list
Video(site, type, key) == [site |-> site, type |-> type, key |-> key]

\* line 181: the embed URL of a key
EmbedUrl(key) == <<"https://www.youtube.com/embed/">> \o key

\* a scan that takes the first YouTube video of any type
RECURSIVE FirstTrailerMutant(_)
FirstTrailerMutant(videos) == IF videos = <<>> THEN <<>> ELSE IF Head(videos).site = "YouTube" THEN EmbedUrl(Head(videos).key) ELSE FirstTrailerMutant(Tail(videos))

\* lines 179-183: the first YouTube trailer, or None (<<>>)
RECURSIVE FirstTrailer(_)
FirstTrailer(videos) == IF videos = <<>> THEN <<>> ELSE IF Head(videos).site = "YouTube" /\ Head(videos).type = "Trailer" THEN EmbedUrl(Head(videos).key) ELSE FirstTrailer(Tail(videos))

\* lines 162-185: a failure is swallowed without a message
get_movie_trailer(key, resp) == IF ~Truthy(key) THEN Out(<<>>, <<>>, "none") ELSE IF resp.ok THEN Out(FirstTrailer(resp.body), <<>>, "none") ELSE IF Catches("RequestException", GetExc(resp)) THEN Out(<<>>, <<>>, "none") ELSE Out(<<>>, <<>>, GetExc(resp))

\* lines 323-328: the providers of one offer type
ProvidersOf(us_providers, provider_type) == IF provider_type \in DOMAIN us_providers THEN [i \in 1..Len(us_providers[provider_type]) |-> [name |-> us_providers[provider_type][i], type |-> provider_type]] ELSE <<>>

\* lines 304-333: a failure is swallowed without a message; the body is
\* results.US, a map from offer type to provider names
get_streaming_providers(key, resp) == IF ~Truthy(key) THEN Out(<<>>, <<>>, "none") ELSE IF resp.ok THEN Out(ProvidersOf(resp.body, "flatrate") \o ProvidersOf(resp.body, "rent") \o ProvidersOf(resp.body, "buy"), <<>>, "none") ELSE IF Catches("RequestException", GetExc(resp)) THEN Out(<<>>, <<>>, "none") ELSE Out(<<>>, <<>>, GetExc(resp))

\* lines 90-96: the genre identifiers (the genres the model selects)
GenreNames == {"Horror", "Comedy", "Drama"}
GenreId(g) == CASE g = "Horror" -> 27 [] g = "Comedy" -> 35 [] g = "Drama" -> 18

\* sep.join(parts)
RECURSIVE Join(_, _)
Join(parts, sep) == IF parts = <<>> THEN <<>> ELSE IF Len(parts) = 1 THEN Head(parts) ELSE Head(parts) \o sep \o Join(Tail(parts), sep)

\* line 203: the identifiers, as text, of the selected genres that are known
RECURSIVE GenreIds(_)
GenreIds(genres) == IF genres = <<>> THEN <<>> ELSE (IF Head(genres) \in GenreNames THEN <<Str(GenreId(Head(genres)))>> ELSE <<>>) \o GenreIds(Tail(genres))

\* a year argument: None, or a year
NoYear == [none |-> TRUE, value |-> 0]
Year(y) == [none |-> FALSE, value |-> y]

\* parameters whose certifications are joined by a comma
DiscoverParamsMutant(genres, year, age_ratings, sort_by, page) == [sort_by |-> sort_by, page |-> page, language |-> "en-US", has_with_genres |-> Truthy(genres) /\ Truthy(GenreIds(genres)), with_genres |-> IF Truthy(genres) THEN Join(GenreIds(genres), <<",">>) ELSE <<>>, has_year |-> ~year.none, year |-> IF year.none THEN 0 ELSE year.value, has_certification |-> Truthy(age_ratings), certification_country |-> IF Truthy(age_ratings) THEN "US" ELSE "", certification |-> IF Truthy(age_ratings) THEN Join(age_ratings, <<",">>) ELSE <<>>]

\* lines 195-223: the parameters of the discovery call; a parameter that is
\* not sent is marked by its has_ field
DiscoverParams(genres, year, age_ratings, sort_by, page) == [sort_by |-> sort_by, page |-> page, language |-> "en-US", has_with_genres |-> Truthy(genres) /\ Truthy(GenreIds(genres)), with_genres |-> IF Truthy(genres) THEN Join(GenreIds(genres), <<",">>) ELSE <<>>, has_year |-> ~year.none, year |-> IF year.none THEN 0 ELSE year.value, has_certification |-> Truthy(age_ratings), certification_country |-> IF Truthy(age_ratings) THEN "US" ELSE "", certification |-> IF Truthy(age_ratings) THEN Join(age_ratings, <<"|">>) ELSE <<>>]

\* x in list
InList(x, list) == \E i \in 1..Len(list) : list[i] = x

\* a re-check that lets every fetched movie through
PassesAgeFilterMutant(movie_age_rating, age_ratings) == TRUE

\* line 237
PassesAgeFilter(movie_age_rating, age_ratings) == InList(movie_age_rating, age_ratings) \/ movie_age_rating = NOT_RATED

\* lines 232-239: the client-side re-check; items pairs each movie of the
\* endpoint's list with the answer to its detail GET. The result is the kept
\* movies, the messages of the detail fetches and the first exception that
\* left a detail fetch
RECURSIVE ClientFilter(_, _, _)
ClientFilter(key, items, age_ratings) == IF items = <<>> THEN Out(<<>>, <<>>, "none") ELSE LET d == get_movie_details(key, Head(items).detail) IN IF d.raised # "none" THEN Out(<<>>, d.msgs, d.raised) ELSE LET rest == ClientFilter(key, Tail(items), age_ratings) keep == d.ret.ok /\ PassesAgeFilter(get_age_rating_from_details(d.ret), age_ratings) IN Out((IF keep THEN <<Head(items).movie>> ELSE <<>>) \o rest.ret, d.msgs \o rest.msgs, rest.raised)

\* results of the endpoint's list
MoviesOf(items) == [i \in 1..Len(items) |-> items[i].movie]

\* lines 189-244; resp.body is the endpoint's list with the detail answers
discover_movies(key, age_ratings, resp) == IF ~Truthy(key) THEN Out(<<>>, <<>>, "none") ELSE IF ~resp.ok THEN (IF Catches("RequestException", GetExc(resp)) THEN Out(<<>>, <<Msg("error", "Error discovering movies")>>, "none") ELSE Out(<<>>, <<>>, GetExc(resp))) ELSE IF Truthy(age_ratings) /\ Truthy(resp.body) THEN LET f == ClientFilter(key, resp.body, age_ratings) IN (IF f.raised = "none" THEN f ELSE IF Catches("RequestException", f.raised) THEN Out(<<>>, f.msgs \o <<Msg("error", "Error discovering movies")>>, "none") ELSE f) ELSE Out(MoviesOf(resp.body), <<>>, "none")

\* lines 247-270: the search is outside the try block
find_similar_movies(key, searchResp, similarResp) == LET search_results == search_movies(key, searchResp) IN IF search_results.raised # "none" THEN search_results ELSE IF ~Truthy(search_results.ret) THEN Out(<<>>, search_results.msgs, "none") ELSE IF similarResp.ok THEN Out(similarResp.body, search_results.msgs, "none") ELSE IF Catches("RequestException", GetExc(similarResp)) THEN Out(<<>>, search_results.msgs \o <<Msg("error", "Error finding similar movies")>>, "none") ELSE Out(<<>>, search_results.msgs, GetExc(similarResp))

(***************************************************************************)
(* main: the keys, and the handlers of the search buttons                  *)
(***************************************************************************)
\* lines 421-435: st.secrets[...] raises for a missing entry; an empty TMDB
\* key stops the script with an error; setup_apis keeps a Gemini key only
\* when it is truthy
MainSetup(sec) == IF ~sec.tmdb.present \/ ~sec.gemini.present THEN [status |-> "raised", tmdb_api_key |-> <<>>, gemini_api_key |-> <<>>, msgs |-> <<>>] ELSE IF ~Truthy(sec.tmdb.value) THEN [status |-> "stopped", tmdb_api_key |-> <<>>, gemini_api_key |-> <<>>, msgs |-> <<Msg("error", "TMDB API key not found")>>] ELSE [status |-> "ok", tmdb_api_key |-> sec.tmdb.value, gemini_api_key |-> sec.gemini.value, msgs |-> <<>>]

SecretConfigs == {[tmdb |-> t, gemini |-> g] : t \in {NoSecret, Secret(<<>>), Secret(<<"k">>)}, g \in {NoSecret, Secret(<<>>), Secret(<<"g">>)}}

\* the provider's candidates and result lists of the client specification
ClientMovies == {Movie(1, TRUE, 75), Movie(2, FALSE, 0)}
SearchBodies == {<<>>, <<Movie(1, TRUE, 75)>>, <<Movie(2, FALSE, 0), Movie(1, TRUE, 75)>>}
SearchResps == {Resp(FALSE, <<>>)} \cup {Resp(TRUE, b) : b \in SearchBodies}

\* what a handler leaves behind: the call it made with its inputs and the
\* provider's answers, its result, and the run's messages
Record(op, status, in, out) == [op |-> op, status |-> status, in |-> in, ret |-> out.ret, raised |-> out.raised]

StoreUnchanged == UNCHANGED <<favFile, ratFile, favorites, user_ratings, failures, last, filterCall, secrets>>

\* a handler reads nothing an earlier run left behind (it reads the keys and
\* overwrites the recommendations), so a behaviour holds one run of one
\* handler, with every input and every answer of the provider
FirstRun == call = NoCall

\* lines 426-432: a run of the script that ends before the tabs are built
MainFails(t) == /\ FirstRun
                /\ MainSetup(secrets).status # "ok"
                /\ call' = Record("main", MainSetup(secrets).status, <<>>, Out(<<>>, <<>>, IF MainSetup(secrets).status = "raised" THEN "KeyError" ELSE "none"))
                /\ messages' = MainSetup(secrets).msgs
                /\ UNCHANGED recommendations
                /\ StoreUnchanged

\* a handler's result is stored unless an exception ended the run
Finish(t, op, in, out) == /\ call' = Record(op, "ok", in, out)
                          /\ messages' = out.msgs
                          /\ recommendations' = IF out.raised = "none" THEN [recommendations EXCEPT ![t] = out.ret] ELSE recommendations
                          /\ StoreUnchanged

\* lines 444-447: the "Find Similar Movies" button with a title entered
FindSimilar(t, searchResp, similarResp) == /\ FirstRun /\ MainSetup(secrets).status = "ok"
                                           /\ Finish(t, "similar", [search |-> searchResp, similar |-> similarResp], find_similar_movies(MainSetup(secrets).tmdb_api_key, searchResp, similarResp))

\* lines 492-500: the "Discover Movies" button
Discover(t, genres, year, age_ratings, sort_by, resp) == /\ FirstRun /\ MainSetup(secrets).status = "ok"
                                                         /\ Finish(t, "discover", [genres |-> genres, year |-> year, age_ratings |-> age_ratings, sort_by |-> sort_by, params |-> DiscoverParams(genres, year, age_ratings, sort_by, 1), resp |-> resp], discover_movies(MainSetup(secrets).tmdb_api_key, age_ratings, resp))

\* lines 603-604: the card of one displayed recommendation is built
FormatCard(t, movie, detailResp, providersResp, videosResp) == /\ FirstRun /\ MainSetup(secrets).status = "ok"
    /\ LET key == MainSetup(secrets).tmdb_api_key
           d == get_movie_details(key, detailResp)
           p == get_streaming_providers(key, providersResp)
           v == get_movie_trailer(key, videosResp)
           raised == IF d.raised # "none" THEN d.raised ELSE IF p.raised # "none" THEN p.raised ELSE v.raised
       IN /\ call' = Record("format_movie_card", "ok", [movie |-> movie, detail |-> detailResp, providers |-> providersResp, videos |-> videosResp], Out(format_movie_card(movie, d.ret, p.ret, v.ret), <<>>, raised))
          /\ messages' = d.msgs \o p.msgs \o v.msgs
    /\ UNCHANGED recommendations
    /\ StoreUnchanged

\* line 289: the stripped lines of the response that are not blank
RECURSIVE Titles(_)
Titles(lines) == IF lines = <<>> THEN <<>> ELSE (IF Truthy(Strip(Head(lines))) THEN <<Strip(Head(lines))>> ELSE <<>>) \o Titles(Tail(lines))

\* a loop over every title
FirstTitlesMutant(movie_titles) == movie_titles

\* line 293: movie_titles[:5]
FirstTitles(movie_titles) == Take(movie_titles, 5)

\* every match of a title
FirstMatchMutant(movies) == movies

\* line 296: movies[:1]
FirstMatch(movies) == Take(movies, 1)

\* lines 292-296: the searches of the titles from the j-th on; resps[j] is
\* the provider's answer to the search of the j-th title. An exception that
\* leaves a search ends the loop
RECURSIVE SearchTitles(_, _, _, _)
SearchTitles(key, titles, resps, j) == IF j > Len(titles) THEN [ret |-> <<>>, msgs |-> <<>>, raised |-> "none", queries |-> <<>>] ELSE LET movies == search_movies(key, resps[j]) IN IF movies.raised # "none" THEN [ret |-> <<>>, msgs |-> movies.msgs, raised |-> movies.raised, queries |-> <<titles[j]>>] ELSE LET rest == SearchTitles(key, titles, resps, j + 1) IN [ret |-> (IF Truthy(movies.ret) THEN FirstMatch(movies.ret) ELSE <<>>) \o rest.ret, msgs |-> movies.msgs \o rest.msgs, raised |-> rest.raised, queries |-> <<titles[j]>> \o rest.queries]

\* lines 272-302; genResp is the generative-text API's answer, its body the
\* lines of response.text; generated says whether the API was called and
\* queries lists the title searches made
get_gemini_recommendations(gemini_key, key, genResp, resps) == IF ~Truthy(gemini_key) THEN [ret |-> <<>>, msgs |-> <<Msg("warning", "Gemini API key not provided. Skipping AI recommendations.")>>, raised |-> "none", queries |-> <<>>, generated |-> FALSE] ELSE IF ~genResp.ok THEN (IF Catches("Exception", "GenerativeError") THEN [ret |-> <<>>, msgs |-> <<Msg("error", "Error with Gemini AI")>>, raised |-> "none", queries |-> <<>>, generated |-> TRUE] ELSE [ret |-> <<>>, msgs |-> <<>>, raised |-> "GenerativeError", queries |-> <<>>, generated |-> TRUE]) ELSE LET r == SearchTitles(key, FirstTitles(Titles(genResp.body)), resps, 1) IN IF r.raised = "none" THEN [ret |-> r.ret, msgs |-> r.msgs, raised |-> "none", queries |-> r.queries, generated |-> TRUE] ELSE IF Catches("Exception", r.raised) THEN [ret |-> <<>>, msgs |-> r.msgs \o <<Msg("error", "Error with Gemini AI")>>, raised |-> "none", queries |-> r.queries, generated |-> TRUE] ELSE [ret |-> <<>>, msgs |-> r.msgs, raised |-> r.raised, queries |-> r.queries, generated |-> TRUE]

\* lines 511-514: the "Get AI Recommendations" button with a description entered
GetAiRecommendations(t, genResp, resps) == /\ FirstRun /\ MainSetup(secrets).status = "ok"
    /\ LET out == get_gemini_recommendations(MainSetup(secrets).gemini_api_key, MainSetup(secrets).tmdb_api_key, genResp, resps)
       IN /\ call' = [op |-> "gemini", status |-> "ok", in |-> [gen |-> genResp, resps |-> resps], ret |-> out.ret, raised |-> out.raised, queries |-> out.queries, generated |-> out.generated]
          /\ messages' = out.msgs
          /\ recommendations' = IF out.raised = "none" THEN [recommendations EXCEPT ![t] = out.ret] ELSE recommendations
    /\ StoreUnchanged

(***************************************************************************)
(* The client specification: the provider's answers are drawn per call     *)
(***************************************************************************)
\* longest list of the discovery endpoint
MaxDiscover == 3
\* most lines of a generative-text response
MaxLines == 6

\* the certifications
CERT_R == <<"R">>
CERT_PG == <<"P", "G">>

\* the detail answers: a failed GET, a record without release_dates, US
\* entries rated R and PG, a blank first US entry followed by a US entry
\* rated R, a first US entry with an empty certification followed by a US
\* entry rated R, and a record rated only in France
DetailResps == {Resp(TRUE, Detail(TRUE, TRUE, <<Country("US", <<<<>>>>), Country("US", <<CERT_R>>)>>)), Resp(FALSE, NoDetail), Resp(TRUE, Detail(TRUE, FALSE, <<>>)), Resp(TRUE, Detail(TRUE, TRUE, <<Country("US", <<CERT_R>>)>>)), Resp(TRUE, Detail(TRUE, TRUE, <<Country("FR", <<CERT_R>>), Country("US", <<<<>>, CERT_PG>>)>>)), Resp(TRUE, Detail(TRUE, TRUE, <<Country("US", <<<<" ">>>>), Country("US", <<CERT_R>>)>>)), Resp(TRUE, Detail(TRUE, TRUE, <<Country("FR", <<CERT_R>>)>>))}

\* the endpoint's lists: the i-th movie has identifier i
RECURSIVE DiscoverBodies(_)
DiscoverBodies(n) == IF n = 0 THEN {<<>>} ELSE LET shorter == DiscoverBodies(n - 1) IN shorter \cup {Append(xs, [movie |-> Movie(Len(xs) + 1, TRUE, 70), detail |-> d]) : xs \in {ys \in shorter : Len(ys) = n - 1}, d \in DetailResps}

DiscoverResps == {Resp(FALSE, <<>>)} \cup {Resp(TRUE, b) : b \in DiscoverBodies(MaxDiscover)}

GenreSelections == {<<>>, <<"Horror">>, <<"Comedy", "Horror">>}
YearSelections == {NoYear, Year(2020)}
RatingSelections == {<<>>, <<CERT_R>>, <<CERT_PG, CERT_R>>}
SortSelections == {"popularity.desc", "vote_average.asc"}

ProvidersResps == {Resp(FALSE, <<>>), Resp(TRUE, <<>>), Resp(TRUE, [flatrate |-> <<"Netflix">>, buy |-> <<"Apple TV">>])}
VideosResps == {Resp(FALSE, <<>>), Resp(TRUE, <<>>), Resp(TRUE, <<Video("YouTube", "Teaser", <<"a">>), Video("YouTube", "Trailer", <<"b">>)>>), Resp(TRUE, <<Video("Vimeo", "Trailer", <<"c">>), Video("YouTube", "Trailer", <<"d">>), Video("YouTube", "Trailer", <<"e">>)>>)}

\* the lines of a response: the i-th line is blank or holds the i-th title
\* between spaces
TitleLetters == <<"A", "B", "C", "D", "E", "F", "G", "H">>
RECURSIVE LineSeqs(_)
LineSeqs(n) == IF n = 0 THEN {<<>>} ELSE LET shorter == LineSeqs(n - 1) IN shorter \cup {Append(xs, l) : xs \in {ys \in shorter : Len(ys) = n - 1}, l \in {<<" ">>, <<" ", TitleLetters[n], " ">>}}

GenResps == {Resp(FALSE, <<>>)} \cup {Resp(TRUE, b) : b \in LineSeqs(MaxLines)}

\* sequences over S of length n
RECURSIVE SeqsOfLen(_, _)
SeqsOfLen(S, n) == IF n = 0 THEN {<<>>} ELSE {Append(xs, x) : xs \in SeqsOfLen(S, n - 1), x \in S}

InitClient == /\ IdleStore
              /\ filterCall = [done |-> FALSE, recs |-> <<>>, min_rating |-> 0, max_results |-> 0, out |-> <<>>]
              /\ secrets \in SecretConfigs
              /\ messages = <<>>
              /\ call = NoCall

HandleClient(t) == \/ MainFails(t)
                   \/ FirstRun /\ \E a \in SearchResps, b \in SearchResps : FindSimilar(t, a, b)
                   \/ FirstRun /\ \E g \in GenreSelections, y \in YearSelections, r \in RatingSelections, o \in SortSelections, resp \in DiscoverResps : Discover(t, g, y, r, o, resp)
                   \/ FirstRun /\ \E m \in ClientMovies, d \in DetailResps, p \in ProvidersResps, v \in VideosResps : FormatCard(t, m, d, p, v)
                   \/ FirstRun /\ \E gen \in GenResps : \E resps \in SeqsOfLen(SearchResps, Len(Titles(gen.body))) : GetAiRecommendations(t, gen, resps)

NextClient == HandleClient(1)

SpecClient == InitClient /\ [][NextClient]_vars

(***************************************************************************)
(* Trailer extraction as a function of the provider's video list           *)
(***************************************************************************)
\* longest video list
MaxVideos == 4

VideoKeys == <<"a", "b", "c", "d", "e", "f">>

\* the video lists: the i-th entry has the i-th key, any site and any type
RECURSIVE VideoLists(_)
VideoLists(n) == IF n = 0 THEN {<<>>} ELSE LET shorter == VideoLists(n - 1) IN shorter \cup {Append(xs, Video(site, type, <<VideoKeys[n]>>)) : xs \in {ys \in shorter : Len(ys) = n - 1}, site \in {"YouTube", "Vimeo"}, type \in {"Trailer", "Teaser"}}

TrailerResps == {Resp(FALSE, <<>>)} \cup {Resp(TRUE, b) : b \in VideoLists(MaxVideos)}

\* line 342: the trailer of a card's movie is fetched
GetMovieTrailer(t, resp) == /\ FirstRun /\ MainSetup(secrets).status = "ok"
                            /\ call' = Record("get_movie_trailer", "ok", resp, get_movie_trailer(MainSetup(secrets).tmdb_api_key, resp))
                            /\ messages' = get_movie_trailer(MainSetup(secrets).tmdb_api_key, resp).msgs
                            /\ UNCHANGED recommendations
                            /\ StoreUnchanged

InitTrailer == /\ IdleStore
               /\ filterCall = [done |-> FALSE, recs |-> <<>>, min_rating |-> 0, max_results |-> 0, out |-> <<>>]
               /\ secrets = BothKeys
               /\ messages = <<>>
               /\ call = NoCall

NextTrailer == FirstRun /\ \E resp \in TrailerResps : GetMovieTrailer(1, resp)

SpecTrailer == InitTrailer /\ [][NextTrailer]_vars

\* C12: for every video list the provider returns, the trailer is the embed
\* URL of the key of the first entry, in list order, whose site is YouTube
\* and whose type is "Trailer"; earlier YouTube entries of another type and
\* trailers of another site are skipped; with no such entry there is no
\* trailer.
C12_FirstYouTubeTrailer == (call.op = "get_movie_trailer" /\ call.in.ok) =>
    LET videos == call.in.body
        qualifying == {i \in 1..Len(videos) : videos[i].site = "YouTube" /\ videos[i].type = "Trailer"}
    IN /\ call.raised = "none"
       /\ IF qualifying = {} THEN call.ret = <<>>
          ELSE \E i \in qualifying : /\ \A j \in qualifying : i <= j
                                    /\ call.ret = <<"https://www.youtube.com/embed/">> \o videos[i].key

\* a YouTube teaser and a Vimeo trailer come before two YouTube trailers,
\* and the first of the two is returned
C12_Witness == /\ call.op = "get_movie_trailer" /\ call.in.ok
               /\ Len(call.in.body) = 4
               /\ call.in.body[1].site = "YouTube" /\ call.in.body[1].type = "Teaser"
               /\ call.in.body[2].site = "Vimeo" /\ call.in.body[2].type = "Trailer"
               /\ call.in.body[3].site = "YouTube" /\ call.in.body[3].type = "Trailer"
               /\ call.in.body[4].site = "YouTube" /\ call.in.body[4].type = "Trailer"
               /\ call.ret = <<"https://www.youtube.com/embed/", "c">>

(***************************************************************************)
(* The client's claims                                                     *)
(***************************************************************************)
\* the certification the claim resolves for an item of the endpoint's list
ResolvedCert(item) == get_age_rating_from_details(item.detail.body)

\* C5: with a non-empty certification set S, the result of discover_movies
\* is exactly the endpoint's movies, in the endpoint's order, whose detail
\* fetch succeeded and whose resolved US certification is in S or is
\* "Not Rated"; a movie whose detail fetch failed, or whose certification is
\* another one, is not in it.
C5_DiscoverRecheck == (call.op = "discover" /\ Truthy(call.in.age_ratings) /\ call.in.resp.ok) =>
    LET S == call.in.age_ratings
        items == call.in.resp.body
        Kept(item) == item.detail.ok /\ ((\E i \in 1..Len(S) : S[i] = ResolvedCert(item)) \/ ResolvedCert(item) = <<"N", "o", "t", " ", "R", "a", "t", "e", "d">>)
        kept == SelectSeq(items, Kept)
    IN /\ call.ret = [i \in 1..Len(kept) |-> kept[i].movie]
       /\ IsSubseq(call.ret, MoviesOf(items))
       /\ \A i \in 1..Len(items) : ~Kept(items[i]) => ~InList(items[i].movie, call.ret)

\* S = {R}: a failed detail fetch and a PG movie are dropped, a movie rated
\* only outside the US (resolved "Not Rated") is kept
C5_Witness == /\ call.op = "discover"
              /\ call.in.age_ratings = <<CERT_R>>
              /\ call.in.resp.ok
              /\ Len(call.in.resp.body) = 3
              /\ ~call.in.resp.body[1].detail.ok
              /\ ResolvedCert(call.in.resp.body[2]) = CERT_PG
              /\ call.in.resp.body[3].detail.ok /\ ResolvedCert(call.in.resp.body[3]) = NOT_RATED
              /\ call.ret = <<call.in.resp.body[3].movie>>

\* the GETs of a run that failed, by handler
FailedOf(resp) == IF resp.ok THEN 0 ELSE 1

RECURSIVE FailedDetails(_)
FailedDetails(items) == IF items = <<>> THEN 0 ELSE FailedOf(Head(items).detail) + FailedDetails(Tail(items))

RECURSIVE FailedSearches(_, _)
FailedSearches(resps, n) == IF n = 0 THEN 0 ELSE FailedOf(resps[n]) + FailedSearches(resps, n - 1)

FailedGets == CASE call.op = "similar" -> FailedOf(call.in.search) + (IF call.in.search.ok /\ Truthy(call.in.search.body) THEN FailedOf(call.in.similar) ELSE 0)
                [] call.op = "discover" -> FailedOf(call.in.resp) + (IF call.in.resp.ok /\ Truthy(call.in.age_ratings) THEN FailedDetails(call.in.resp.body) ELSE 0)
                [] call.op = "format_movie_card" -> FailedOf(call.in.detail) + FailedOf(call.in.providers) + FailedOf(call.in.videos)
                [] call.op = "gemini" -> IF call.generated /\ call.in.gen.ok THEN FailedSearches(call.in.resps, Len(call.queries)) ELSE 0
                [] OTHER -> 0

\* C6: no exception leaves a handler of the client whatever GETs fail; an
\* operation whose own GET failed returns its empty result: [] for a search,
\* a discovery and a similar-movies call (also when its nested search
\* failed), no detail, no trailer and no providers in a card; a failed
\* nested detail fetch only drops its movie from the discovery result and a
\* failed nested search only drops its title's candidate.
C6_FailuresStayInside == call.op \in {"similar", "discover", "format_movie_card", "gemini"} =>
    /\ call.raised = "none"
    /\ call.op = "similar" => ((~call.in.search.ok \/ ~call.in.similar.ok) => call.ret = <<>>)
    /\ call.op = "discover" => /\ ~call.in.resp.ok => call.ret = <<>>
                               /\ (call.in.resp.ok /\ Truthy(call.in.age_ratings)) => \A i \in 1..Len(call.in.resp.body) : ~call.in.resp.body[i].detail.ok => ~InList(call.in.resp.body[i].movie, call.ret)
    /\ call.op = "format_movie_card" => /\ ~call.in.detail.ok => call.ret.age_rating = <<"N", "o", "t", " ", "R", "a", "t", "e", "d">>
                                        /\ ~call.in.providers.ok => call.ret.streaming_providers = <<>>
                                        /\ ~call.in.videos.ok => call.ret.trailer_url = <<>>
                                        /\ call.ret.id = call.in.movie.id
    /\ call.op = "gemini" => Len(call.ret) <= Len(call.queries) - FailedGets

\* a discovery whose three nested detail fetches all fail returns []
C6_Witness == /\ call.op = "discover"
              /\ call.in.resp.ok
              /\ Truthy(call.in.age_ratings)
              /\ FailedGets = 3
              /\ call.ret = <<>>
              /\ call.raised = "none"

\* C7 as claimed: every failed GET of a run shows the user a message.
C7_EveryFailureWarns == call.op \in {"similar", "discover", "format_movie_card", "gemini"} => Len(messages) >= FailedGets

\* the first five titles and the candidates their searches give, computed
\* from the response's lines and the provider's answers
RECURSIVE NonBlankStripped(_)
NonBlankStripped(lines) == IF lines = <<>> THEN <<>> ELSE LET rest == NonBlankStripped(Tail(lines)) IN IF \A i \in 1..Len(Head(lines)) : Head(lines)[i] \in {" ", "\t", "\n"} THEN rest ELSE <<Strip(Head(lines))>> \o rest

RECURSIVE FirstHits(_, _, _)
FirstHits(resps, j, n) == IF j > n THEN <<>> ELSE (IF resps[j].ok /\ resps[j].body # <<>> THEN <<resps[j].body[1]>> ELSE <<>>) \o FirstHits(resps, j + 1, n)

\* C9: the free-text strategy searches the first 5 non-blank lines of the
\* response, stripped and in order, and nothing else; it returns at most 5
\* candidates: the first result of each search that succeeded with a
\* non-empty list, in title order, whatever the other searches did.
C9_AtMostFiveSearches == (call.op = "gemini" /\ call.generated /\ call.in.gen.ok) =>
    LET titles == NonBlankStripped(call.in.gen.body)
        n == IF Len(titles) < 5 THEN Len(titles) ELSE 5
    IN /\ call.queries = SubSeq(titles, 1, n)
       /\ Len(call.queries) <= 5
       /\ Len(call.ret) <= 5
       /\ call.ret = FirstHits(call.in.resps, 1, n)
       /\ call.raised = "none"

\* six titles: five searches; the second search fails, the third finds
\* nothing, and the later ones still give their candidates
C9_Witness == /\ call.op = "gemini" /\ call.generated /\ call.in.gen.ok
              /\ Len(NonBlankStripped(call.in.gen.body)) = 6
              /\ Len(call.queries) = 5
              /\ ~call.in.resps[2].ok
              /\ call.in.resps[3].ok /\ call.in.resps[3].body = <<>>
              /\ Len(call.ret) = 3
              /\ call.ret[3] = call.in.resps[5].body[1]
              /\ Len(call.in.resps[5].body) = 2

\* C10 as claimed: with the metadata key configured and the text-generation
\* key absent (no entry, or an empty value), no run of the script ends before
\* the tabs are built, and the free-text strategy returns [] with a warning
\* without calling the generative-text API or searching.
C10_MissingKeyDegrades == (secrets.tmdb.present /\ Truthy(secrets.tmdb.value) /\ (~secrets.gemini.present \/ ~Truthy(secrets.gemini.value))) =>
    /\ call.op # "main"
    /\ call.op = "gemini" => (call.ret = <<>> /\ ~call.generated /\ call.queries = <<>> /\ call.raised = "none" /\ \E i \in 1..Len(messages) : messages[i].level = "warning")

\* the first certification of a list that is not the empty string
FirstNonEmpty(certs) == LET at == {i \in 1..Len(certs) : certs[i] # <<>>} IN IF at = {} THEN <<>> ELSE certs[CHOOSE i \in at : \A j \in at : i <= j]

\* the first non-empty certification over every US entry of a record, in order
RECURSIVE FirstUsCertification(_)
FirstUsCertification(countries) == IF countries = <<>> THEN <<>> ELSE IF Head(countries).iso = "US" /\ FirstNonEmpty(Head(countries).certs) # <<>> THEN FirstNonEmpty(Head(countries).certs) ELSE FirstUsCertification(Tail(countries))

\* C11 as claimed: the card's age rating is the first non-empty US
\* certification met when scanning the detail's release-date entries in
\* order, across all US entries, and "Not Rated" when no US entry carries a
\* non-empty certification or the detail is missing.
C11_CardAgeRating == (call.op = "format_movie_card" /\ call.raised = "none") =>
    LET d == call.in.detail
        found == IF d.ok /\ d.body.ok /\ d.body.has_release_dates THEN FirstUsCertification(d.body.countries) ELSE <<>>
    IN call.ret.age_rating = IF found # <<>> THEN found ELSE NOT_RATED

\* the provider's identifier of a genre, as text
GenreIdText(g) == CASE g = "Horror" -> <<"2", "7">> [] g = "Comedy" -> <<"3", "5">> [] g = "Drama" -> <<"1", "8">>

\* the texts of a list with sep between two neighbours
RECURSIVE Separated(_, _)
Separated(texts, sep) == IF texts = <<>> THEN <<>> ELSE LET front == SubSeq(texts, 1, Len(texts) - 1) IN Separated(front, sep) \o (IF front = <<>> THEN <<>> ELSE <<sep>>) \o texts[Len(texts)]

\* C13: the discovery call's parameters hold with_genres = the provider ids
\* of the selected genres, year only when a year other than "Any" is
\* given, certification_country = US and certification = the requested
\* certifications joined by '|' only when some certification is selected,
\* the sort key, and page 1; genres = {Horror}, year = 2020, ratings = {R}
\* give with_genres = 27, year = 2020, certification_country = US,
\* certification = R.
C13_DiscoverParams == call.op = "discover" =>
    LET in == call.in
        params == in.params
    IN /\ params.sort_by = in.sort_by
       /\ params.page = 1
       /\ params.has_with_genres <=> in.genres # <<>>
       /\ params.has_with_genres => params.with_genres = Separated([i \in 1..Len(in.genres) |-> GenreIdText(in.genres[i])], ",")
       /\ params.has_year <=> ~in.year.none
       /\ params.has_year => params.year = in.year.value
       /\ params.has_certification <=> in.age_ratings # <<>>
       /\ params.has_certification => (params.certification_country = "US" /\ params.certification = Separated(in.age_ratings, "|"))
       /\ (in.genres = <<"Horror">> /\ in.year = Year(2020) /\ in.age_ratings = <<CERT_R>>) =>
             (params.with_genres = <<"2", "7">> /\ params.year = 2020 /\ params.certification_country = "US" /\ params.certification = <<"R">>)

\* two genres and two certifications are selected and no year: the ids are
\* joined by a comma, the certifications by '|', and year is not sent
C13_Witness == /\ call.op = "discover"
               /\ call.in.genres = <<"Comedy", "Horror">>
               /\ call.in.year = NoYear
               /\ call.in.age_ratings = <<CERT_PG, CERT_R>>
               /\ call.in.params.with_genres = <<"3", "5", ",", "2", "7">>
               /\ ~call.in.params.has_year
               /\ call.in.params.certification = <<"P", "G", "|", "R">>
               /\ call.in.params.certification_country = "US"

(***************************************************************************)
(* The store's claims                                                      *)
(***************************************************************************)
CountOf(favs, id) == Cardinality({j \in 1..Len(favs) : favs[j].id = id})

\* C1: in a single session no sequence of add, remove and clear-all leaves
\* two favorites with the same movie identifier, in memory or in the file;
\* a movie that was added is in the list exactly once.
C1_FavoritesUnique == /\ \A t \in Tabs : UniqueIds(favorites[t])
                      /\ favFile.kind = "json" => UniqueIds(favFile.doc)
                      /\ last.op = "add" => CountOf(favorites[last.tab], last.id) = 1

\* the added movie is still among the recommendations (its card now shows
\* "already in favorites"), once or twice, and is in the list once
C1_Witness == /\ last.op = "add"
              /\ Len(favorites[last.tab]) = 2
              /\ Len(recommendations[last.tab]) = 2
              /\ \A i \in 1..2 : recommendations[last.tab][i].id = last.id
              /\ CountOf(favorites[last.tab], last.id) = 1

\* C2: every stored rating, in memory and in the file, is an integer in 1..5;
\* a movie reads as 0 exactly when it has no entry.
C2_RatingsInRange == /\ \A t \in Tabs : \A k \in DOMAIN user_ratings[t] : user_ratings[t][k] \in 1..5
                     /\ ratFile.kind = "json" => \A k \in DOMAIN ratFile.doc : ratFile.doc[k] \in 1..5
                     /\ \A t \in Tabs : \A m \in MovieIds : (current_rating(user_ratings[t], m) = 0) <=> (Str(m) \notin DOMAIN user_ratings[t])

C2_Witness == /\ last.op = "rate"
              /\ current_rating(user_ratings[last.tab], last.id) = 5
              /\ \E m \in MovieIds : current_rating(user_ratings[last.tab], m) = 0

\* C3: a rate action (m, v) makes the rating of m read v whatever it was
\* before, keeps one entry per movie under the identifier as text, and leaves
\* the rating of every other movie, and the other sessions, as they were.
C3_RateThenRead == [][last'.op = "rate" => LET t == last'.tab m == last'.id IN
                        /\ current_rating(user_ratings'[t], m) = last'.v
                        /\ last'.v \in 1..5
                        /\ DOMAIN user_ratings'[t] = (DOMAIN user_ratings[t]) \cup {Str(m)}
                        /\ \A m2 \in MovieIds \ {m} : current_rating(user_ratings'[t], m2) = current_rating(user_ratings[t], m2)
                        /\ \A t2 \in Tabs \ {t} : user_ratings'[t2] = user_ratings[t2]]_vars

\* a movie was rated again: the file, whose last write failed, still holds
\* the earlier, different value, and the other movie keeps its rating
C3_Witness == /\ last.op = "rate"
              /\ current_rating(user_ratings[last.tab], last.id) = last.v
              /\ ratFile.kind = "json"
              /\ DictGet(ratFile.doc, Str(last.id)) \notin {0, last.v}
              /\ \E m \in MovieIds \ {last.id} : current_rating(user_ratings[last.tab], m) > 0

\* C8: while no write has failed, each file loads to exactly the session's
\* collection, so a session started then loads the same favorites in the
\* same order and the same ratings; and a mutation whose write succeeds
\* leaves its file holding exactly the whole collection.
C8_InSync == (failures = 0 /\ last.tab \in Tabs) => /\ load_favorites(favFile) = favorites[last.tab]
                                                     /\ load_user_ratings(ratFile) = user_ratings[last.tab]

C8_WriteStep == /\ (failures' = failures /\ last'.op \in {"add", "remove", "clear"}) => favFile' = JsonFile(favorites'[last'.tab])
                /\ (failures' = failures /\ last'.op = "rate") => ratFile' = JsonFile(user_ratings'[last'.tab])
                /\ (failures = 0 /\ last'.op = "start" /\ last.tab = last'.tab) => (favorites' = favorites /\ user_ratings' = user_ratings)

\* C8: the two parts together, in every state and over every step
C8_FilesMirrorSession == [](C8_InSync) /\ [][C8_WriteStep]_vars

\* favorites and ratings were changed, every write succeeded, and both
\* files hold the collections
C8_Witness == /\ last.op = "remove"
              /\ failures = 0
              /\ Len(favorites[last.tab]) = 1
              /\ favFile = JsonFile(favorites[last.tab])
              /\ ratFile = JsonFile(user_ratings[last.tab])
              /\ Cardinality(DOMAIN user_ratings[last.tab]) = 2
              /\ \A k \in DOMAIN user_ratings[last.tab] : user_ratings[last.tab][k] = 1

\* the entries of a list other than those of movie id, in the list's order
RECURSIVE Without(_, _)
Without(favs, id) == IF favs = <<>> THEN <<>> ELSE (IF Head(favs).id = id THEN <<>> ELSE <<Head(favs)>>) \o Without(Tail(favs), id)

\* what a step of the session of tab t may do to its favorites list
C14_Step(t) == LET before == favorites[t]
                   after == favorites'[t]
               IN /\ (last'.op = "add" /\ last'.tab = t) => /\ Len(after) = Len(before) + 1
                                                           /\ SubSeq(after, 1, Len(before)) = before
                                                           /\ after[Len(after)].id = last'.id
                  /\ (last'.op = "remove" /\ last'.tab = t) => /\ CountOf(before, last'.id) = 1
                                                              /\ Len(after) = Len(before) - 1
                                                              /\ after = Without(before, last'.id)
                  /\ (last'.op = "clear" /\ last'.tab = t) => after = <<>>
                  /\ last'.op \in {"rate", "search"} => after = before
                  /\ last'.tab # t => after = before

TabsResults == {<<Movie(1, TRUE, 75), Movie(2, FALSE, 0)>>}

\* the star pressed in either session
TabsStars == {5}

\* one run of the script in tab t: the session is started, a search is run,
\* a displayed card is added to the favorites, or a movie is rated; no
\* favorite is removed and the list is never cleared
HandleTabs(t) == \/ StartSession(t)
                 \/ \E results \in TabsResults : RunSearch(t, results)
                 \/ \E i \in 1..MaxRecs, r \in SessionMinRatings, n \in SessionMaxResults, d \in SessionDetails, o \in WriteOutcomes : AddFavorite(t, i, r, n, d, o)
                 \/ \E n \in 1..Cardinality(MovieIds), i \in TabsStars, o \in WriteOutcomes : RateFavorite(t, n, i, o)
                 \/ \E n \in 1..MaxRecs, r \in SessionMinRatings, m \in SessionMaxResults, i \in TabsStars, o \in WriteOutcomes : RateRecommendation(t, n, r, m, i, o)

\* the runs of the two sessions interleave, one run at a time
NextTabs == \E t \in Tabs : HandleTabs(t)

\* both sessions were started while neither file existed
InitTabs == IdleStore /\ IdleClient

SpecTabs == InitTabs /\ [][NextTabs]_vars

\* the movie identifiers of a favorites list
IdsOf(favs) == {favs[j].id : j \in 1..Len(favs)}

\* a save that succeeds leaves in the file what the saving session holds,
\* and nothing of what the file held that the session does not hold
C15_SaveStep(t) == (last'.tab = t /\ failures' = failures) =>
    /\ last'.op = "add" => /\ load_favorites(favFile') = favorites'[t]
                           /\ \A id \in IdsOf(load_favorites(favFile)) \ IdsOf(favorites'[t]) : id \notin IdsOf(load_favorites(favFile'))
    /\ last'.op = "rate" => /\ load_user_ratings(ratFile') = user_ratings'[t]
                            /\ \A k \in (DOMAIN load_user_ratings(ratFile)) \ (DOMAIN user_ratings'[t]) : k \notin DOMAIN load_user_ratings(ratFile')

\* C15: with two sessions that each loaded the files at their own start,
\* a save overwrites the whole file from the saving session's own list and
\* is not guarded, so a favorite added and saved by one session can be
\* absent from the file after the other session's later save although no
\* session removed it; the same holds for a rating in the ratings file.
C15_UnguardedSaves == [][\A t \in Tabs : C15_SaveStep(t)]_vars

\* the lost update: no write has failed and nothing was ever removed, the
\* first session holds movie 1 as a favorite and its rating, and the files,
\* last saved by the second session, hold neither
C15_Witness == /\ failures = 0
               /\ 1 \in IdsOf(favorites[1])
               /\ favFile = JsonFile(favorites[2])
               /\ IdsOf(load_favorites(favFile)) = {2}
               /\ Str(1) \in DOMAIN user_ratings[1]
               /\ ratFile = JsonFile(user_ratings[2])
               /\ DOMAIN load_user_ratings(ratFile) = {Str(2)}

(***************************************************************************)
(* The filter stage as a function of its inputs                            *)
(***************************************************************************)
\* the candidates of the filter specification: one without a vote_average
\* field, one rated 6.0
FilterMovies == {Movie(1, FALSE, 0), Movie(2, TRUE, 60)}

\* the slider positions tried: 0.0, 6.0 and 6.1
FilterMinRatings == {0, 60, 61}

FilterInputs == {[done |-> FALSE, recs |-> L, min_rating |-> R, max_results |-> N, out |-> <<>>] : L \in SeqsUpTo(FilterMovies, MaxFilterLen), R \in FilterMinRatings, N \in MaxResultsOptions}

InitFilter == /\ IdleStore
              /\ filterCall \in FilterInputs
              /\ secrets = BothKeys
              /\ messages = <<>>
              /\ call = NoCall

\* lines 588-595 applied to the drawn inputs
ApplyFilter == /\ ~filterCall.done
               /\ filterCall' = [filterCall EXCEPT !.done = TRUE, !.out = FilteredRecommendations(filterCall.recs, filterCall.min_rating, filterCall.max_results)]
               /\ UNCHANGED <<favFile, ratFile, favorites, user_ratings, recommendations, failures, last, secrets, messages, call>>

NextFilter == ApplyFilter

SpecFilter == InitFilter /\ [][NextFilter]_vars

\* C4: the filter stage's output holds no candidate rated below the minimum
\* (no vote_average field counts as 0), is a subsequence of the input, has at
\* most max_results elements and is the first max_results elements of the
\* input's candidates rated at least the minimum.
C4_FilterStage == filterCall.done => LET L == filterCall.recs
                                         R == filterCall.min_rating
                                         N == filterCall.max_results
                                         out == filterCall.out
                                         RatedAtLeast(m) == (IF m.has_vote THEN m.vote_average ELSE 0) >= R
                                         kept == SelectSeq(L, RatedAtLeast)
                                     IN /\ \A i \in 1..Len(out) : RatedAtLeast(out[i])
                                        /\ IsSubseq(out, L)
                                        /\ Len(out) <= N
                                        /\ Len(out) = IF Len(kept) < N THEN Len(kept) ELSE N
                                        /\ \A i \in 1..Len(out) : out[i] = kept[i]

\* one candidate is dropped for its rating and the rest is cut to the count
C4_Witness == /\ filterCall.done
              /\ filterCall.min_rating = 60
              /\ Len(filterCall.recs) = 12
              /\ ~filterCall.recs[1].has_vote
              /\ Len(filterCall.out) = 10
              /\ filterCall.max_results = 10

====
